---- MODULE Spec2Model ----
\* Verification model of cine-compass: the movie data service (venue directory,
\* venue-scope resolution, showtime aggregation), the MovieGallery data loading
\* and the MovieTimeline anchor / venue-order logic.
EXTENDS Integers, Sequences, FiniteSets, TLC

\* ------------------------------------------------------------------ values
\* A nullable JavaScript value is <<>> (null / undefined) or <<v>>.
Null == <<>>
Some(v) == <<v>>
Val(o) == o[1]

SeqToSet(s) == {s[i] : i \in 1..Len(s)}
MapIds(s) == [i \in 1..Len(s) |-> s[i].id]
Includes(s, x) == \E i \in 1..Len(s) : s[i] = x

\* Bounds of the model.
MaxGen == 2
MaxFailures == 1
MaxShowtimes == 3

\* String.prototype.localeCompare on the names that occur: rank in this list.
AlphabeticalNames ==
  <<"amsterdam", "Amsterdam", "Cinecenter", "Eye", "Hartlooper", "Kriterion", "Studio", "Utrecht">>
NameRank(n) == CHOOSE i \in 1..Len(AlphabeticalNames) : AlphabeticalNames[i] = n
LocaleCompare(a, b) == NameRank(a) - NameRank(b)

\* ------------------------------------------------------------------ state
VARIABLES
  \* the upstream catalog (CatalogClient)
  catalog,              \* the venue list the venue-listing query returns
  venueRequests,        \* number of venue-listing requests issued so far
  failures,             \* number of catalog requests that failed so far
  \* module state of the movie service
  theatersCache, allTheaterIdsCache, cityTheaterIdsCache,
  calls,                \* the service calls in flight, by call id
  \* MovieGallery state
  mounted, filters, gen, settled,
  movies, availableSpecials, cities,
  loading, specialsLoading, theatersLoading, error,
  \* one call of getPopularMovies on one response
  response,             \* response.showtimes.data of the showtime query
  aggFilters,           \* the criteria getPopularMovies was called with
  aggResult,            \* what it returned for response (null: not called yet)
  baseline,             \* what it returned for the first order of the same records
  \* MovieTimeline state and the preferences it stores
  timelineMovies,       \* the movies prop
  selectedAnchor, bufferMinutes, hideSameMovie, availabilityMode,
  theaterOrder, draggingTheater, prefsHydrated,
  storedTheaterOrder,   \* localStorage[TIMELINE_THEATER_ORDER_KEY]
  storedPrefs,          \* localStorage[TIMELINE_PREFS_KEY]
  clicks,               \* the last two showtime clicks, each with the anchor before it
  mergeBase,            \* the order the last merge of venue columns started from
  \* what localStorage holds at mount, and the initial state read from it
  storage,              \* the documents under the filter, saved-showtime and timeline keys
  loaded                \* the initial state each component computed (null: not mounted)

svcVars == <<catalog, venueRequests, failures, theatersCache, allTheaterIdsCache,
             cityTheaterIdsCache, calls>>
galVars == <<mounted, filters, gen, settled, movies, availableSpecials, cities,
             loading, specialsLoading, theatersLoading, error>>
aggVars == <<response, aggFilters, aggResult, baseline>>
tlVars == <<timelineMovies, selectedAnchor, bufferMinutes, hideSameMovie, availabilityMode,
            theaterOrder, draggingTheater, prefsHydrated, storedTheaterOrder, storedPrefs,
            clicks, mergeBase>>
storeVars == <<storage, loaded>>
vars == <<svcVars, galVars, aggVars, tlVars, storeVars>>

\* ------------------------------------------------------------------ catalog
Theater(id, name, city) == [id |-> id, name |-> name, city |-> city]
FullDirectory ==
  << Theater("t1", "Kriterion", "Amsterdam"),
     Theater("t2", "Eye", "Amsterdam"),
     Theater("t3", "Hartlooper", "Utrecht"),
     Theater("t5", "Studio", "amsterdam") >>
CatalogSet == { <<>>, FullDirectory }
CityNames == {"Amsterdam", "Utrecht"}

\* The showings the catalog lists, as far as the gallery is concerned.
Programme ==
  { [film |-> "f1", venue |-> "t1", specials |-> "3D"],
    [film |-> "f2", venue |-> "t2", specials |-> ""],
    [film |-> "f3", venue |-> "t3", specials |-> "Q&A"] }
InScope(q) ==
  {s \in Programme : q.venueId = Null \/ s.venue \in SeqToSet(Val(q.venueId))}
FilmsFor(q) == {s.film : s \in InScope(q)}
SpecialsFor(q) == {s.specials : s \in InScope(q)} \ {""}

\* ------------------------------------------------------------------ filters
Filters(city, theaterIds) == [selectedCity |-> city, selectedTheaters |-> theaterIds]
FilterSet ==
  { Filters(Null, <<>>), Filters(Some("Amsterdam"), <<>>),
    Filters(Some("Amsterdam"), <<"t3">>) }

\* ------------------------------------------------------------------ movie service
\* One service call: its position, what resolveVenueIds did for it, the
\* venue-listing request it issued (if any) and what loadTheaters returned to it.
IdleCall ==
  [ pc |-> "idle", filters |-> Filters(Null, <<>>), scope |-> "none",
    helperIds |-> Null, venueIds |-> Null, fetch |-> "none", loadAll |-> Null,
    afterSuccess |-> FALSE, query |-> Null, result |-> {}, cities |-> <<>> ]

TheatersCall == <<0, "theaters">>
SpecialsCall(g) == <<g, "specials">>
MoviesCall(g) == <<g, "movies">>
DataCalls == {SpecialsCall(g) : g \in 1..MaxGen} \cup {MoviesCall(g) : g \in 1..MaxGen}
CallIds == {TheatersCall} \cup DataCalls

Truthy(o) == o # Null /\ Val(o) # ""

\* A cache test that takes an empty list for a missing one.
TheatersCacheHitNonEmpty(tc) == tc # Null /\ Len(Val(tc)) > 0

\* if (theatersCache): an array, also an empty one, is truthy.
TheatersCacheHit(tc) == tc # Null

\* What loadTheaters hands to its caller when its own fetch ends: the fetched
\* list, or (catch) an empty list as a successful result.
LoadTheatersReturn(ok, data) ==
  IF ok THEN [status |-> "ok", value |-> data]
        ELSE [status |-> "ok", value |-> <<>>]

IdsInCity(theaters, cityName) ==
  MapIds(SelectSeq(theaters, LAMBDA t : t.city = cityName))

\* theaters.sort((a, b) => a.name.localeCompare(b.name)): stable.
RECURSIVE SortByName(_)
SortByName(s) ==
  IF s = <<>> THEN <<>>
  ELSE LET x == s[Len(s)]
           sorted == SortByName(SubSeq(s, 1, Len(s) - 1))
           k == Cardinality({i \in 1..Len(sorted) : LocaleCompare(sorted[i].name, x.name) <= 0})
       IN SubSeq(sorted, 1, k) \o <<x>> \o SubSeq(sorted, k + 1, Len(sorted))

RECURSIVE DistinctCities(_)
DistinctCities(s) ==
  IF s = <<>> THEN <<>>
  ELSE LET r == DistinctCities(SubSeq(s, 1, Len(s) - 1))
           c == s[Len(s)].city
       IN IF Includes(r, c) THEN r ELSE Append(r, c)

\* movieService.getTheaters after loadTheaters: group by city, sort both levels.
GroupByCity(theaters) ==
  LET names == DistinctCities(theaters)
  IN SortByName([i \in 1..Len(names) |->
        [ name |-> names[i],
          theaters |-> SortByName(SelectSeq(theaters, LAMBDA t : t.city = names[i])) ]])

\* A cache test that takes an empty id list for a missing one.
CityCacheHitNonEmpty(cc, cityName) == cc[cityName] # Null /\ Len(Val(cc[cityName])) > 0

\* cityTheaterIdsCache.has(cityName)
CityCacheHit(cc, cityName) == cc[cityName] # Null

\* if (allTheaterIdsCache): an array, also an empty one, is truthy.
AllIdsCacheHit(ac) == ac # Null

\* A resolver that lets the selected city win over the explicit venues.
VenueScopeCityFirst(f) ==
  IF Truthy(f.selectedCity) THEN "city"
  ELSE IF Len(f.selectedTheaters) > 0 THEN "explicit"
  ELSE "all"

\* resolveVenueIds: which of its three branches runs.
VenueScope(f) ==
  IF Len(f.selectedTheaters) > 0 THEN "explicit"
  ELSE IF Truthy(f.selectedCity) THEN "city"
  ELSE "all"

\* buildApiFilters after resolveVenueIds: the venue restriction of the query.
BuildApiFilters(venueIds) ==
  [venueId |-> IF Len(venueIds) > 0 THEN Some(venueIds) ELSE Null]

\* The service state threaded through the synchronous part of a call.
Svc == [ tc |-> theatersCache, ac |-> allTheaterIdsCache, cc |-> cityTheaterIdsCache,
         calls |-> calls, req |-> venueRequests ]

\* resolveVenueIds returned venueIds to call c: the showtime query is sent.
IssueShowtimes(S, c, helperIds, venueIds) ==
  [S EXCEPT !.calls[c].helperIds = helperIds,
            !.calls[c].venueIds = Some(venueIds),
            !.calls[c].query = Some(BuildApiFilters(venueIds)),
            !.calls[c].pc = "awaitShowtimes"]

\* loadTheaters returned `theaters` to call c: the rest of getTheaters,
\* getTheaterIdsByCity or getAllTheaterIds, and what follows it.
AfterLoadTheaters(S, c, theaters) ==
  LET f == S.calls[c].filters
      scope == S.calls[c].scope
  IN CASE scope = "directory" ->
            [S EXCEPT !.calls[c].cities = GroupByCity(theaters),
                      !.calls[c].pc = "resolved"]
       [] scope = "city" ->
            LET ids == IdsInCity(theaters, Val(f.selectedCity))
            IN IssueShowtimes([S EXCEPT !.cc[Val(f.selectedCity)] = Some(ids)],
                              c, Some(ids), ids)
       [] OTHER ->
            LET ids == MapIds(theaters)
            IN IssueShowtimes([S EXCEPT !.ac = Some(ids)], c, Some(ids), ids)

\* loadTheaters as called for c: the cached list, or a venue-listing request.
LoadTheaters(S, c) ==
  IF TheatersCacheHit(S.tc)
  THEN AfterLoadTheaters(
         [S EXCEPT !.calls[c].loadAll = Some([status |-> "ok", value |-> Val(S.tc)])],
         c, Val(S.tc))
  ELSE [S EXCEPT !.calls[c].pc = "awaitVenues",
                 !.calls[c].fetch = "pending",
                 !.req = @ + 1]

NewCall(S, c, f, scope) ==
  [S EXCEPT !.calls[c] = [IdleCall EXCEPT !.filters = f, !.scope = scope,
                                          !.afterSuccess =
                              (\E d \in DOMAIN S.calls : S.calls[d].fetch = "ok")]]

\* movieService.getTheaters up to its first suspension.
StartGetTheaters(S) ==
  LoadTheaters(NewCall(S, TheatersCall, Filters(Null, <<>>), "directory"), TheatersCall)

\* getAvailableSpecials / getPopularMovies up to the first suspension:
\* buildApiFilters -> resolveVenueIds -> helper -> loadTheaters.
StartDataCall(S, c, f) ==
  LET scope == VenueScope(f)
      S0 == NewCall(S, c, f, scope)
  IN CASE scope = "explicit" -> IssueShowtimes(S0, c, Null, f.selectedTheaters)
       [] scope = "city" /\ CityCacheHit(S.cc, Val(f.selectedCity)) ->
            IssueShowtimes(S0, c, S.cc[Val(f.selectedCity)], Val(S.cc[Val(f.selectedCity)]))
       [] scope = "all" /\ AllIdsCacheHit(S.ac) -> IssueShowtimes(S0, c, S.ac, Val(S.ac))
       [] OTHER -> LoadTheaters(S0, c)

SetSvc(S) ==
  /\ theatersCache' = S.tc
  /\ allTheaterIdsCache' = S.ac
  /\ cityTheaterIdsCache' = S.cc
  /\ calls' = S.calls
  /\ venueRequests' = S.req

\* A catalog request ends: successfully, or (at most MaxFailures times in a
\* run of the model) with an error.
CatalogAnswers(ok) ==
  /\ ok \/ failures < MaxFailures
  /\ failures' = IF ok THEN failures ELSE failures + 1

\* ------------------------------------------------------------------ MovieGallery
ErrorMessage == "Failed to load movies. Please try again later."
NoMovies == [gen |-> 0, films |-> {}]

\* The body of loadData up to its await: both service calls are started.
StartLoadData(S, g, f) ==
  StartDataCall(StartDataCall(S, SpecialsCall(g), f), MoviesCall(g), f)

\* The component mounts: the loadTheaters effect and the loadData effect run.
Mount ==
  /\ ~mounted
  /\ mounted' = TRUE
  /\ gen' = 1
  /\ theatersLoading' = TRUE
  /\ specialsLoading' = TRUE
  /\ loading' = TRUE
  /\ error' = Null
  /\ SetSvc(StartLoadData(StartGetTheaters(Svc), 1, filters))
  /\ UNCHANGED <<catalog, failures, filters, settled, movies, availableSpecials, cities>>
  /\ UNCHANGED <<aggVars, tlVars, storeVars>>

\* The filter panel is part of the render only when no error is shown: with an
\* error set the component returns the error message alone.
FiltersPanelRendered == mounted /\ error = Null

\* handleFiltersChange -> setFilters -> the loadData effect runs again. The
\* filter panel calls it from an effect when it mounts (with criteria equal to
\* the current ones), and afterwards whenever the user edits a control; the
\* controls exist only while no error is shown and the theaters have loaded.
FiltersChange(f) ==
  /\ FiltersPanelRendered
  /\ gen < MaxGen
  /\ \/ ~theatersLoading
     \/ gen = 1 /\ f = filters
  /\ filters' = f
  /\ gen' = gen + 1
  /\ specialsLoading' = TRUE
  /\ loading' = TRUE
  /\ error' = Null
  /\ SetSvc(StartLoadData(Svc, gen + 1, f))
  /\ UNCHANGED <<catalog, failures, mounted, settled, movies, availableSpecials,
                 cities, theatersLoading>>
  /\ UNCHANGED <<aggVars, tlVars, storeVars>>

\* The venue-listing request of call c ends (ok or not): loadTheaters resumes,
\* then its caller. For getTheaters the gallery's loadTheaters resumes too.
VenueResponse(c, ok) ==
  /\ calls[c].pc = "awaitVenues"
  /\ CatalogAnswers(ok)
  /\ LET theaters == LoadTheatersReturn(ok, catalog)
         S0 == [Svc EXCEPT !.tc = IF ok THEN Some(catalog) ELSE @,
                           !.calls[c].fetch = IF ok THEN "ok" ELSE "failed",
                           !.calls[c].loadAll = Some(theaters)]
         S1 == IF theaters.status = "ok"
               THEN AfterLoadTheaters(S0, c, theaters.value)
               ELSE [S0 EXCEPT !.calls[c].pc = "rejected"]
     IN /\ SetSvc(S1)
        /\ IF c = TheatersCall
           THEN /\ cities' = IF S1.calls[c].pc = "resolved" THEN S1.calls[c].cities ELSE cities
                /\ theatersLoading' = FALSE
           ELSE UNCHANGED <<cities, theatersLoading>>
  /\ UNCHANGED <<catalog, mounted, filters, gen, settled, movies, availableSpecials,
                 loading, specialsLoading, error>>
  /\ UNCHANGED <<aggVars, tlVars, storeVars>>

\* The showtime request of call c ends. getAvailableSpecials recovers a failure
\* to an empty list, getPopularMovies rethrows. Then Promise.all of c's loadData
\* run may settle, and the run's continuation writes the gallery state.
ShowtimesResponse(c, ok) ==
  /\ calls[c].pc = "awaitShowtimes"
  /\ CatalogAnswers(ok)
  /\ LET g == c[1]
         q == Val(calls[c].query)
         \* a finished call keeps its outcome only
         done == IF c[2] = "specials"
                 THEN [IdleCall EXCEPT !.pc = "resolved",
                                       !.result = IF ok THEN SpecialsFor(q) ELSE {}]
                 ELSE IF ok THEN [IdleCall EXCEPT !.pc = "resolved", !.result = FilmsFor(q)]
                            ELSE [IdleCall EXCEPT !.pc = "rejected"]
         cs == [calls EXCEPT ![c] = done]
         rejected == cs[MoviesCall(g)].pc = "rejected"
         fulfilled == cs[SpecialsCall(g)].pc = "resolved" /\ cs[MoviesCall(g)].pc = "resolved"
     IN /\ calls' = cs
        /\ IF ~settled[g] /\ (rejected \/ fulfilled)
           THEN /\ settled' = [settled EXCEPT ![g] = TRUE]
                /\ IF rejected
                   THEN /\ error' = Some(ErrorMessage)
                        /\ UNCHANGED <<movies, availableSpecials>>
                   ELSE /\ availableSpecials' = [gen |-> g, specials |-> cs[SpecialsCall(g)].result]
                        /\ movies' = [gen |-> g, films |-> cs[MoviesCall(g)].result]
                        /\ UNCHANGED error
                /\ specialsLoading' = FALSE
                /\ loading' = FALSE
           ELSE UNCHANGED <<settled, movies, availableSpecials, error, specialsLoading, loading>>
  /\ UNCHANGED <<catalog, venueRequests, theatersCache, allTheaterIdsCache,
                 cityTheaterIdsCache, mounted, filters, gen, cities, theatersLoading>>
  /\ UNCHANGED <<aggVars, tlVars, storeVars>>

GalleryInit ==
  /\ catalog \in CatalogSet
  /\ venueRequests = 0
  /\ failures = 0
  /\ theatersCache = Null
  /\ allTheaterIdsCache = Null
  /\ cityTheaterIdsCache = [c \in CityNames |-> Null]
  /\ calls = [c \in CallIds |-> IdleCall]
  /\ mounted = FALSE
  /\ filters \in FilterSet
  /\ gen = 0
  /\ settled = [g \in 1..MaxGen |-> FALSE]
  /\ movies = NoMovies
  /\ availableSpecials = [gen |-> 0, specials |-> {}]
  /\ cities = <<>>
  /\ loading = TRUE
  /\ specialsLoading = TRUE
  /\ theatersLoading = TRUE
  /\ error = Null

\* The gallery before it is mounted, over the full directory.
GalleryIdle ==
  /\ GalleryInit
  /\ catalog = FullDirectory
  /\ filters = Filters(Null, <<>>)

\* A render that draws the films whatever the error is.
DisplayedFilmsIgnoringError == movies.films

\* The render of MovieGallery: with an error set, only the message is drawn.
DisplayedFilms == IF error # Null THEN {} ELSE movies.films

\* ------------------------------------------------------------------ strings
\* A string that the code trims, lower-cases or searches is a sequence of
\* one-character strings.
LowerChar(c) ==
  CASE c = "D" -> "d" [] c = "E" -> "e" [] c = "N" -> "n"
    [] c = "S" -> "s" [] c = "O" -> "o" [] c = "V" -> "v"
    [] OTHER -> c
ToLowerCase(s) == [i \in 1..Len(s) |-> LowerChar(s[i])]
RECURSIVE TrimStart(_)
TrimStart(s) == IF s # <<>> /\ s[1] = " " THEN TrimStart(Tail(s)) ELSE s
RECURSIVE TrimEnd(_)
TrimEnd(s) == IF s # <<>> /\ s[Len(s)] = " " THEN TrimEnd(SubSeq(s, 1, Len(s) - 1)) ELSE s
Trim(s) == TrimEnd(TrimStart(s))
StrIncludes(h, n) == \E i \in 0..(Len(h) - Len(n)) : SubSeq(h, i + 1, i + Len(n)) = n
\* x || '' for a nullable string
OrEmpty(o) == IF o = Null THEN <<>> ELSE Val(o)
\* Array.from(new Set(list)): first occurrences, in order
RECURSIVE Distinct(_)
Distinct(s) ==
  IF s = <<>> THEN <<>>
  ELSE LET r == Distinct(SubSeq(s, 1, Len(s) - 1))
       IN IF Includes(r, s[Len(s)]) THEN r ELSE Append(r, s[Len(s)])

\* ------------------------------------------------------------------ aggregation

Film(id, poster, cover, spoken) ==
  [id |-> id, poster |-> poster, cover |-> cover, spokenLanguages |-> spoken]
Labels(specials, subtitles, languageVersion) ==
  [specials |-> specials, subtitles |-> subtitles, languageVersion |-> languageVersion]

F1 == Film("f1", Some("p1.jpg"), Null, Some(<< <<"E", "n">> >>))
F1NoPoster == Film("f1", Null, Null, Some(<< <<"E", "n">> >>))
F2Cover == Film("f2", Null, Some("c2.jpg"), Null)
F3EmptyPoster == Film("f3", Some(""), Null, Some(<< <<" ">>, <<"n", "l">> >>))

L0 == Labels(Null, <<>>, Null)
L1 == Labels(Some(<<"x", "3", "D">>), <<"e", "n", " ">>, Some(<<" ", "o", "v">>))
L2 == Labels(Some(<<" ", "S">>), <<"E", "N">>, Some(<<" ">>))

V1 == Theater("t1", "Kriterion", "Amsterdam")
V2 == Theater("t2", "Eye", "Amsterdam")

RawShowtime(film, labels, theater) ==
  [film |-> film, theater |-> theater, specials |-> labels.specials,
   subtitles |-> labels.subtitles, languageVersion |-> labels.languageVersion]

\* The kinds of record the catalog may list.
ShowtimeKinds ==
  << RawShowtime(Some(F1), L0, Some(V1)),
     RawShowtime(Some(F1), L1, Some(V1)),
     RawShowtime(Some(F1), L2, Some(V1)),
     RawShowtime(Some(F1), L1, Some(V2)),
     RawShowtime(Some(F1NoPoster), L1, Some(V1)),
     RawShowtime(Some(F2Cover), L1, Some(V1)),
     RawShowtime(Some(F2Cover), L2, Some(V1)),
     RawShowtime(Some(F3EmptyPoster), L1, Some(V1)),
     RawShowtime(Null, L1, Some(V1)),
     RawShowtime(Some(F1), L2, Null) >>

\* Record number i of a response, of kind k: one screening, with its own id.
Screening(i, k) ==
  [ id |-> i, startDate |-> 60 * i, endDate |-> 60 * i + 90,
    film |-> ShowtimeKinds[k].film, theater |-> ShowtimeKinds[k].theater,
    specials |-> ShowtimeKinds[k].specials, subtitles |-> ShowtimeKinds[k].subtitles,
    languageVersion |-> ShowtimeKinds[k].languageVersion ]

PredicateFilters(specials, subtitles, spoken) ==
  [ selectedSpecials |-> specials, selectedSubtitleLanguages |-> subtitles,
    selectedSpokenLanguages |-> spoken ]
PredicateFilterSet ==
  { PredicateFilters(<<>>, <<>>, <<>>),
    PredicateFilters(<< <<"3", "d">> >>, <<>>, <<>>),
    PredicateFilters(<< <<"q">>, <<"S">> >>, <<>>, <<>>),
    PredicateFilters(<<>>, << <<"E", "N">> >>, <<>>),
    PredicateFilters(<<>>, <<>>, << <<"e", "n">> >>) }

NonBlank(s) == Trim(s) # <<>>
TrimAll(s) == [i \in 1..Len(s) |-> Trim(s[i])]

\* film.poster?.url || film.cover?.url || ''
PosterPath(film) ==
  IF film.poster # Null /\ Val(film.poster) # "" THEN Val(film.poster)
  ELSE IF film.cover # Null /\ Val(film.cover) # "" THEN Val(film.cover)
  ELSE ""

\* Subtitle labels that are deduplicated as they are written.
AvailableSubtitlesUntrimmed(showtimes) ==
  Distinct(SelectSeq([i \in 1..Len(showtimes) |-> showtimes[i].subtitles], NonBlank))

\* convertCinevilleFilmToMovie
AvailableSubtitles(showtimes) ==
  Distinct(TrimAll(SelectSeq([i \in 1..Len(showtimes) |-> showtimes[i].subtitles], NonBlank)))
AvailableLanguageVersions(showtimes) ==
  Distinct(TrimAll(SelectSeq([i \in 1..Len(showtimes) |-> OrEmpty(showtimes[i].languageVersion)],
                             NonBlank)))
\* The specials of the first showtime only.
AvailableSpecialsOfFirst(showtimes) ==
  Distinct(TrimAll(SelectSeq([i \in 1..(IF Len(showtimes) > 0 THEN 1 ELSE 0) |->
                                OrEmpty(showtimes[i].specials)], NonBlank)))

AvailableSpecials(showtimes) ==
  Distinct(TrimAll(SelectSeq([i \in 1..Len(showtimes) |-> OrEmpty(showtimes[i].specials)],
                             NonBlank)))
MovieShowtime(showtime) ==
  [ id |-> showtime.id, startDate |-> showtime.startDate, endDate |-> showtime.endDate,
    theaterId |-> Val(showtime.theater).id, theaterName |-> Val(showtime.theater).name,
    specials |-> showtime.specials, subtitles |-> showtime.subtitles,
    languageVersion |-> showtime.languageVersion ]
ConvertCinevilleFilmToMovie(film, showtimes) ==
  [ id |-> film.id,
    poster_path |-> PosterPath(film),
    spokenLanguages |-> SelectSeq(OrEmpty(film.spokenLanguages), NonBlank),
    availableSubtitles |-> AvailableSubtitles(showtimes),
    availableLanguageVersions |-> AvailableLanguageVersions(showtimes),
    availableSpecials |-> AvailableSpecials(showtimes),
    showtimes |-> [i \in 1..Len(showtimes) |-> MovieShowtime(showtimes[i])] ]

\* A predicate that compares the labels as they are written.
HasMatchingSpecialCaseSensitive(showtime, f) ==
  \E i \in 1..Len(f.selectedSpecials) :
     StrIncludes(OrEmpty(showtime.specials), f.selectedSpecials[i])

\* getPopularMovies: the specials predicate on one showtime.
HasMatchingSpecial(showtime, f) ==
  LET showtimeSpecials == ToLowerCase(OrEmpty(showtime.specials))
  IN \E i \in 1..Len(f.selectedSpecials) :
        StrIncludes(showtimeSpecials, ToLowerCase(f.selectedSpecials[i]))
Survives(showtime, f) == Len(f.selectedSpecials) > 0 => HasMatchingSpecial(showtime, f)

\* A gate that lets every film through.
PosterGateOpen(movie) == TRUE

\* .filter(movie => movie.poster_path)
PosterGate(movie) == movie.poster_path # ""

SubtitleFilter(movie, f) ==
  Len(f.selectedSubtitleLanguages) > 0 =>
    \E i \in 1..Len(f.selectedSubtitleLanguages), j \in 1..Len(movie.availableSubtitles) :
       StrIncludes(ToLowerCase(movie.availableSubtitles[j]),
                   ToLowerCase(f.selectedSubtitleLanguages[i]))
SpokenFilter(movie, f) ==
  Len(f.selectedSpokenLanguages) > 0 =>
    \E i \in 1..Len(f.selectedSpokenLanguages), j \in 1..Len(movie.spokenLanguages) :
       StrIncludes(ToLowerCase(movie.spokenLanguages[j]),
                   ToLowerCase(f.selectedSpokenLanguages[i]))

\* The forEach of getPopularMovies: the film of a group is the film of the
\* group's first showtime.
GroupFilm(surviving, filmId) ==
  Val(surviving[CHOOSE i \in 1..Len(surviving) :
        /\ Val(surviving[i].film).id = filmId
        /\ \A j \in 1..(i - 1) : Val(surviving[j].film).id # filmId].film)

\* getPopularMovies after the response arrived. A surviving record without film
\* or theater makes the body throw; the catch rethrows 'Failed to fetch movies'.
GetPopularMoviesResult(data, f) ==
  LET surviving == SelectSeq(data, LAMBDA s : Survives(s, f))
      throws == \E i \in 1..Len(surviving) :
                   surviving[i].film = Null \/ surviving[i].theater = Null
  IN IF throws THEN [ok |-> FALSE, results |-> <<>>]
     ELSE LET ids == Distinct([i \in 1..Len(surviving) |-> Val(surviving[i].film).id])
              grouped == [k \in 1..Len(ids) |->
                 ConvertCinevilleFilmToMovie(
                    GroupFilm(surviving, ids[k]),
                    SelectSeq(surviving, LAMBDA s : Val(s.film).id = ids[k]))]
          IN [ ok |-> TRUE,
               results |-> SelectSeq(grouped,
                  LAMBDA m : PosterGate(m) /\ SubtitleFilter(m, f) /\ SpokenFilter(m, f)) ]

\* No call of getPopularMovies is looked at.
AggIdle ==
  /\ response = <<>>
  /\ aggFilters = PredicateFilters(<<>>, <<>>, <<>>)
  /\ aggResult = Null
  /\ baseline = Null

\* A response of at most MaxShowtimes records, of any kinds.
AggInit ==
  /\ \E n \in 0..MaxShowtimes :
       \E ks \in [1..n -> 1..Len(ShowtimeKinds)] :
          /\ \A i \in 1..(n - 1) : ks[i] <= ks[i + 1]
          /\ response = [i \in 1..n |-> Screening(i, ks[i])]
  /\ aggFilters \in PredicateFilterSet
  /\ aggResult = Null
  /\ baseline = Null

GetPopularMovies ==
  /\ aggResult = Null
  /\ aggResult' = Some(GetPopularMoviesResult(response, aggFilters))
  /\ baseline' = IF baseline = Null THEN aggResult' ELSE baseline
  /\ UNCHANGED <<response, aggFilters>>
  /\ UNCHANGED <<svcVars, galVars, tlVars, storeVars>>

\* The catalog lists the same records in another order (two neighbours swap).
ReorderResponse(i) ==
  /\ aggResult # Null
  /\ i \in 1..(Len(response) - 1)
  /\ response' = [response EXCEPT ![i] = response[i + 1], ![i + 1] = response[i]]
  /\ aggResult' = Null
  /\ UNCHANGED <<aggFilters, baseline>>
  /\ UNCHANGED <<svcVars, galVars, tlVars, storeVars>>

\* ------------------------------------------------------------------ MovieTimeline
\* bufferMinutes * 60 * 1000
MinuteMs == 60000
DefaultBufferMinutes == 15
\* max={180} of the buffer input
MaxBufferMinutes == 180

\* A showtime of a film of the timeline. startDate and endDate are the instants
\* (epoch milliseconds) that new Date(...).getTime() reads from them.
TimelineShowtime(id, theater, startDate, endDate) ==
  [ id |-> id, theaterId |-> theater.id, theaterName |-> theater.name,
    startDate |-> startDate, endDate |-> endDate ]
TimelineMovie(id, showtimes) == [id |-> id, showtimes |-> showtimes]

V3 == Theater("t3", "Hartlooper", "Utrecht")

RECURSIVE FlatShowtimes(_)
FlatShowtimes(ms) ==
  IF ms = <<>> THEN <<>>
  ELSE FlatShowtimes(SubSeq(ms, 1, Len(ms) - 1)) \o ms[Len(ms)].showtimes

\* useMemo theaters: the venues of the film list, sorted by name.
UniqueTheaters(ms) ==
  LET sts == FlatShowtimes(ms)
      ids == Distinct([i \in 1..Len(sts) |-> sts[i].theaterId])
      NameOf(id) == sts[CHOOSE i \in 1..Len(sts) :
                          /\ sts[i].theaterId = id
                          /\ \A j \in (i + 1)..Len(sts) : sts[j].theaterId # id].theaterName
  IN SortByName([k \in 1..Len(ids) |-> [id |-> ids[k], name |-> NameOf(ids[k])]])
Theaters == UniqueTheaters(timelineMovies)

\* The rows of timelineData: one per showtime of each film.
TimelineRows ==
  UNION { { <<m, st>> : st \in 1..Len(timelineMovies[m].showtimes) } :
          m \in 1..Len(timelineMovies) }
RowMovie(r) == timelineMovies[r[1]]
RowShowtime(r) == timelineMovies[r[1]].showtimes[r[2]]

Max(a, b) == IF a >= b THEN a ELSE b
BufferTimeMs == Max(0, bufferMinutes) * MinuteMs

\* useMemo selectedAnchorEnd: the end of the anchor's showtime, if it is found.
SelectedAnchorEnd ==
  IF selectedAnchor = Null THEN Null
  ELSE LET a == Val(selectedAnchor)
           ms == SelectSeq(timelineMovies, LAMBDA m : m.id = a.movieId)
           sts == IF ms = <<>> THEN <<>>
                  ELSE SelectSeq(ms[1].showtimes, LAMBDA st : st.id = a.showtimeId)
       IN IF sts = <<>> THEN Null ELSE Some(sts[1].endDate)

\* if (selectedAnchorEnd): a number is truthy unless it is 0 (or NaN).
AnchorEndTruthy(e) == e # Null /\ Val(e) # 0

IsAnchorShowtime(r) ==
  /\ selectedAnchor # Null
  /\ Val(selectedAnchor).movieId = RowMovie(r).id
  /\ Val(selectedAnchor).showtimeId = RowShowtime(r).id
IsAvailableAfterSelected(r) ==
  /\ AnchorEndTruthy(SelectedAnchorEnd)
  /\ RowShowtime(r).startDate >= Val(SelectedAnchorEnd) + BufferTimeMs
IsBlockedBySelection(r) ==
  /\ AnchorEndTruthy(SelectedAnchorEnd)
  /\ ~IsAnchorShowtime(r)
  /\ ~IsAvailableAfterSelected(r)
\* A suppression that does not ask whether an anchor is set.
HideSameMovieRowWithoutAnchor(r) ==
  /\ hideSameMovie
  /\ ~IsAnchorShowtime(r)

\* A suppression that spares the showings that are available.
HideSameMovieRowUnlessAvailable(r) ==
  /\ hideSameMovie
  /\ selectedAnchor # Null
  /\ RowMovie(r).id = Val(selectedAnchor).movieId
  /\ ~IsAnchorShowtime(r)
  /\ ~IsAvailableAfterSelected(r)

HideSameMovieRow(r) ==
  /\ hideSameMovie
  /\ selectedAnchor # Null
  /\ RowMovie(r).id = Val(selectedAnchor).movieId
  /\ ~IsAnchorShowtime(r)
ShouldHideRow(r) ==
  \/ availabilityMode = "hide" /\ SelectedAnchorEnd # Null /\ IsBlockedBySelection(r)
  \/ HideSameMovieRow(r)
Highlighted(r) == availabilityMode = "highlight" /\ IsAvailableAfterSelected(r)

\* An anchor setter that never clears.
NextAnchorAlwaysSet(prev, movieId, showtimeId) ==
  Some([movieId |-> movieId, showtimeId |-> showtimeId])

\* The updater of handleShowtimeClick.
NextAnchor(prev, movieId, showtimeId) ==
  IF prev # Null /\ Val(prev).movieId = movieId /\ Val(prev).showtimeId = showtimeId
  THEN Null
  ELSE Some([movieId |-> movieId, showtimeId |-> showtimeId])

\* The two persist effects: they run after a render in which a preference or
\* the venue order changed, once hydrated or while there are venues.
Persist ==
  IF prefsHydrated' \/ Len(UniqueTheaters(timelineMovies')) > 0
  THEN /\ storedPrefs' = Some([ availabilityMode |-> availabilityMode',
                                bufferMinutes |-> bufferMinutes',
                                hideSameMovie |-> hideSameMovie',
                                theaterOrder |-> theaterOrder' ])
       /\ storedTheaterOrder' = IF Len(theaterOrder') > 0 THEN Some(theaterOrder')
                                ELSE storedTheaterOrder
  ELSE UNCHANGED <<storedPrefs, storedTheaterOrder>>

\* The button of a rendered row is clicked.
HandleShowtimeClick(r) ==
  /\ r \in TimelineRows
  /\ ~ShouldHideRow(r)
  /\ selectedAnchor' = NextAnchor(selectedAnchor, RowMovie(r).id, RowShowtime(r).id)
  /\ clicks' = (IF clicks = <<>> THEN <<>> ELSE << clicks[Len(clicks)] >>) \o
               << [ movieId |-> RowMovie(r).id, showtimeId |-> RowShowtime(r).id,
                    before |-> selectedAnchor ] >>
  /\ UNCHANGED <<timelineMovies, bufferMinutes, hideSameMovie, availabilityMode,
                 theaterOrder, draggingTheater, prefsHydrated, storedTheaterOrder,
                 storedPrefs, mergeBase>>
  /\ UNCHANGED <<svcVars, galVars, aggVars, storeVars>>

\* onChange of the buffer input: Number(e.target.value) || 0.
SetBufferMinutes(typed) ==
  /\ timelineMovies # <<>>
  /\ bufferMinutes' = IF typed = Null THEN 0 ELSE Val(typed)
  /\ bufferMinutes' # bufferMinutes
  /\ UNCHANGED <<timelineMovies, selectedAnchor, hideSameMovie, availabilityMode,
                 theaterOrder, draggingTheater, prefsHydrated, clicks, mergeBase>>
  /\ Persist
  /\ UNCHANGED <<svcVars, galVars, aggVars, storeVars>>

\* A checkbox that takes the anchor's film out of the film list itself.
ToggleHideSameMovieFiltering ==
  /\ timelineMovies # <<>>
  /\ hideSameMovie' = ~hideSameMovie
  /\ timelineMovies' =
       IF selectedAnchor = Null THEN timelineMovies
       ELSE SelectSeq(timelineMovies, LAMBDA m : m.id # Val(selectedAnchor).movieId)
  /\ UNCHANGED <<selectedAnchor, bufferMinutes, availabilityMode,
                 theaterOrder, draggingTheater, prefsHydrated, clicks, mergeBase>>
  /\ Persist
  /\ UNCHANGED <<svcVars, galVars, aggVars, storeVars>>

\* onCheckedChange of the same-film checkbox.
ToggleHideSameMovie ==
  /\ timelineMovies # <<>>
  /\ hideSameMovie' = ~hideSameMovie
  /\ UNCHANGED <<timelineMovies, selectedAnchor, bufferMinutes, availabilityMode,
                 theaterOrder, draggingTheater, prefsHydrated, clicks, mergeBase>>
  /\ Persist
  /\ UNCHANGED <<svcVars, galVars, aggVars, storeVars>>

\* The two availability-mode buttons.
SetAvailabilityMode(mode) ==
  /\ timelineMovies # <<>>
  /\ availabilityMode # mode
  /\ availabilityMode' = mode
  /\ UNCHANGED <<timelineMovies, selectedAnchor, bufferMinutes, hideSameMovie,
                 theaterOrder, draggingTheater, prefsHydrated, clicks, mergeBase>>
  /\ Persist
  /\ UNCHANGED <<svcVars, galVars, aggVars, storeVars>>

\* ------------------------------------------------------------------ venue column order
\* parsed.filter(Boolean) on a list of ids
FilterBoolean(ids) == SelectSeq(ids, LAMBDA id : id # "")

\* A merge that forgets the previous order.
MergeTheaterOrderDirectory(prev, currentIds) == currentIds

\* The updater of the two merge effects.
MergeTheaterOrder(prev, currentIds) ==
  IF Len(prev) = 0 THEN currentIds
  ELSE LET valid == SelectSeq(prev, LAMBDA id : Includes(currentIds, id))
           missing == SelectSeq(currentIds, LAMBDA id : ~Includes(valid, id))
       IN valid \o missing

\* The hydrate effect: the order the preferences start from.
HydratedOrder(ths) ==
  IF storedTheaterOrder # Null THEN FilterBoolean(Val(storedTheaterOrder))
  ELSE IF storedPrefs # Null THEN FilterBoolean(Val(storedPrefs).theaterOrder)
  ELSE MapIds(ths)

\* useMemo orderedTheaters: the columns that are drawn.
OrderedTheaterIds(order, ths) ==
  LET storedIds == SelectSeq(order, LAMBDA id : Includes(MapIds(ths), id))
      remaining == SelectSeq(MapIds(ths), LAMBDA id : ~Includes(storedIds, id))
  IN storedIds \o remaining
OrderedTheaters == OrderedTheaterIds(theaterOrder, Theaters)

IndexOf(s, x) ==
  IF Includes(s, x) THEN CHOOSE i \in 1..Len(s) : s[i] = x /\ \A j \in 1..(i - 1) : s[j] # x
  ELSE 0
\* next.splice(fromIndex, 1)
RemoveAt(s, i) == SubSeq(s, 1, i - 1) \o SubSeq(s, i + 1, Len(s))
\* An insertion that always appends.
InsertAtEnd(s, i, x) == Append(s, x)

\* next.splice(toIndex, 0, x): an index past the end appends.
InsertAt(s, i, x) ==
  LET k == IF i > Len(s) + 1 THEN Len(s) + 1 ELSE i
  IN SubSeq(s, 1, k - 1) \o <<x>> \o SubSeq(s, k, Len(s))

V4 == Theater("t4", "Cinecenter", "Amsterdam")
OrderShowtime(id, theater) == TimelineShowtime(id, theater, 60 * MinuteMs * id, 60 * MinuteMs * id + 90 * MinuteMs)

\* The film lists the gallery may hand to the timeline.
MovieLists ==
  { <<>>,
    << TimelineMovie("m1", << OrderShowtime(1, V1), OrderShowtime(2, V2) >>) >>,
    << TimelineMovie("m1", << OrderShowtime(1, V1), OrderShowtime(2, V2) >>),
       TimelineMovie("m2", << OrderShowtime(3, V3) >>) >>,
    << TimelineMovie("m1", << OrderShowtime(2, V2) >>),
       TimelineMovie("m2", << OrderShowtime(3, V3), OrderShowtime(4, V4) >>) >>,
    << TimelineMovie("m2", << OrderShowtime(3, V3) >>) >> }

\* The orders an earlier visit may have left in storage.
StoredOrders ==
  { Null, Some(<<"t1", "t2">>), Some(<<"t9", "t3">>), Some(<<"t2", "t1", "t2">>) }

\* The props change to a new film list: the hydrate effect, the two merge
\* effects and the persist effects of the renders that follow.
MoviesChange(list) ==
  /\ list # timelineMovies
  /\ timelineMovies' = list
  /\ LET ths == UniqueTheaters(list)
         base == IF prefsHydrated THEN theaterOrder ELSE HydratedOrder(ths)
     IN IF Len(ths) = 0
        THEN UNCHANGED <<theaterOrder, prefsHydrated, mergeBase>>
        ELSE /\ prefsHydrated' = TRUE
             /\ theaterOrder' = MergeTheaterOrder(MergeTheaterOrder(base, MapIds(ths)),
                                                  MapIds(ths))
             /\ mergeBase' = Some([prev |-> base, currentIds |-> MapIds(ths)])
  /\ UNCHANGED <<selectedAnchor, bufferMinutes, hideSameMovie, availabilityMode,
                 draggingTheater, clicks>>
  /\ Persist
  /\ UNCHANGED <<svcVars, galVars, aggVars, storeVars>>

HandleTheaterDragStart(id) ==
  /\ Includes(OrderedTheaters, id)
  /\ draggingTheater # Some(id)
  /\ draggingTheater' = Some(id)
  /\ UNCHANGED <<timelineMovies, selectedAnchor, bufferMinutes, hideSameMovie,
                 availabilityMode, theaterOrder, prefsHydrated, storedTheaterOrder,
                 storedPrefs, clicks, mergeBase>>
  /\ UNCHANGED <<svcVars, galVars, aggVars, storeVars>>

HandleTheaterDrop(targetId) ==
  /\ Includes(OrderedTheaters, targetId)
  /\ draggingTheater # Null
  /\ Val(draggingTheater) # targetId
  /\ LET fromIndex == IndexOf(theaterOrder, Val(draggingTheater))
         toIndex == IndexOf(theaterOrder, targetId)
     IN theaterOrder' =
          IF fromIndex = 0 \/ toIndex = 0 THEN theaterOrder
          ELSE InsertAt(RemoveAt(theaterOrder, fromIndex), toIndex, Val(draggingTheater))
  /\ draggingTheater' = Null
  /\ UNCHANGED <<timelineMovies, selectedAnchor, bufferMinutes, hideSameMovie,
                 availabilityMode, prefsHydrated, clicks, mergeBase>>
  /\ Persist
  /\ UNCHANGED <<svcVars, galVars, aggVars, storeVars>>

\* ------------------------------------------------------------------ timeline states
\* The timeline before it was given films, with nothing in storage.
TimelineIdle ==
  /\ timelineMovies = <<>>
  /\ selectedAnchor = Null
  /\ bufferMinutes = DefaultBufferMinutes
  /\ hideSameMovie = FALSE
  /\ availabilityMode = "highlight"
  /\ theaterOrder = <<>>
  /\ draggingTheater = Null
  /\ prefsHydrated = FALSE
  /\ storedTheaterOrder = Null
  /\ storedPrefs = Null
  /\ clicks = <<>>
  /\ mergeBase = Null

\* The instants the showings of the programme may start at and end at.
AnchorEnds == {0, MinuteMs}
Starts == {MinuteMs - 1, MinuteMs, 2 * MinuteMs - 1, 2 * MinuteMs}
ShowLength == MinuteMs
\* The catalog may list a showing that ends when it starts.
LastShowLengths == {0, ShowLength}
TypedBuffers ==
  {Null, Some(0), Some(1), Some(DefaultBufferMinutes), Some(0 - 5), Some(MaxBufferMinutes + 20)}

\* The timeline shows three showings of two films, first visit, hydrated.
AnchorInit ==
  /\ \E e1 \in AnchorEnds, b2 \in Starts, b3 \in Starts, l3 \in LastShowLengths :
       timelineMovies =
         << TimelineMovie("m1", << TimelineShowtime(1, V1, e1 - ShowLength, e1),
                                   TimelineShowtime(2, V2, b2, b2 + ShowLength) >>),
            TimelineMovie("m2", << TimelineShowtime(3, V3, b3, b3 + l3) >>) >>
  /\ selectedAnchor = Null
  /\ bufferMinutes = DefaultBufferMinutes
  /\ hideSameMovie = FALSE
  /\ availabilityMode = "highlight"
  /\ theaterOrder = MapIds(Theaters)
  /\ draggingTheater = Null
  /\ prefsHydrated = TRUE
  /\ storedTheaterOrder = Some(theaterOrder)
  /\ storedPrefs = Some([ availabilityMode |-> availabilityMode,
                          bufferMinutes |-> bufferMinutes,
                          hideSameMovie |-> hideSameMovie,
                          theaterOrder |-> theaterOrder ])
  /\ clicks = <<>>
  /\ mergeBase = Null

\* The timeline is mounted without films; storage holds what an earlier visit left.
OrderInit ==
  /\ timelineMovies = <<>>
  /\ selectedAnchor = Null
  /\ bufferMinutes = DefaultBufferMinutes
  /\ hideSameMovie = FALSE
  /\ availabilityMode = "highlight"
  /\ theaterOrder = <<>>
  /\ draggingTheater = Null
  /\ prefsHydrated = FALSE
  /\ storedTheaterOrder \in StoredOrders
  /\ storedPrefs = IF storedTheaterOrder = Null THEN Null
                   ELSE Some([ availabilityMode |-> "highlight",
                               bufferMinutes |-> DefaultBufferMinutes,
                               hideSameMovie |-> FALSE,
                               theaterOrder |-> Val(storedTheaterOrder) ])
  /\ clicks = <<>>
  /\ mergeBase = Null

\* ------------------------------------------------------------------ stored state
\* A JSON value of a stored document: its type and, by type, its content.
\* "undefined" is what reading a missing property gives.
JsonValue(t, s, n, b, a) == [t |-> t, s |-> s, n |-> n, b |-> b, a |-> a]
Undefined == JsonValue("undefined", "", 0, FALSE, <<>>)
JNull == JsonValue("null", "", 0, FALSE, <<>>)
JString(s) == JsonValue("string", s, 0, FALSE, <<>>)
JNumber(n) == JsonValue("number", "", n, FALSE, <<>>)
JBoolean(b) == JsonValue("boolean", "", 0, b, <<>>)
JArray(a) == JsonValue("array", "", 0, FALSE, a)

\* Boolean(v) and the truthiness tests
ToBoolean(v) ==
  CASE v.t = "undefined" -> FALSE
    [] v.t = "null" -> FALSE
    [] v.t = "string" -> v.s # ""
    [] v.t = "number" -> v.n # 0
    [] v.t = "boolean" -> v.b
    [] OTHER -> TRUE

\* Number(text), for the texts the documents hold: null stands for NaN.
StringToNumber(s) ==
  CASE s = "" -> Some(0)
    [] s = "20" -> Some(20)
    [] OTHER -> Null

\* Number(v): null stands for NaN.
ToNumber(v) ==
  CASE v.t = "undefined" -> Null
    [] v.t = "null" -> Some(0)
    [] v.t = "string" -> StringToNumber(v.s)
    [] v.t = "number" -> Some(v.n)
    [] v.t = "boolean" -> Some(IF v.b THEN 1 ELSE 0)
    [] OTHER -> IF Len(v.a) = 0 THEN Some(0)
                ELSE IF Len(v.a) = 1 THEN StringToNumber(v.a[1]) ELSE Null

\* v ?? d
Coalesce(v, d) == IF v.t \in {"undefined", "null"} THEN d ELSE v
\* v || d
OrElse(v, d) == IF ToBoolean(v) THEN v ELSE d

\* What localStorage.getItem and JSON.parse make of a key: no entry, an empty
\* text, a text that is not JSON, or a parsed document. A parsed document is
\* null, a scalar, an array (with items) or an object (with fields); reading a
\* property of a scalar or of an array gives undefined.
Document(kind, fields, items) == [kind |-> kind, fields |-> fields, items |-> items]

\* No component has read its stored state.
StoreIdle ==
  /\ storage = <<>>
  /\ loaded = <<>>

\* A property read from a parsed document (parsed.field, parsed?.field); reading
\* parsed.field of null throws and is handled where it happens.
PropertyOf(doc, f) == IF doc.kind = "object" THEN doc.fields[f] ELSE Undefined
\* JSON.parse(stored) throws
ParseFails(doc) == doc.kind = "invalid"
\* !stored
NothingStored(doc) == doc.kind \in {"absent", "empty"}

\* ---- the filter key
FilterFields ==
  { "selectedCity", "selectedTheaters", "selectedSubtitleLanguages",
    "selectedSpokenLanguages", "selectedSpecials", "startTime", "endTime",
    "startDate", "endDate" }
ListFields ==
  { "selectedTheaters", "selectedSubtitleLanguages", "selectedSpokenLanguages",
    "selectedSpecials" }
\* getDefaultDates(): the day of the visit
Today == "2026-11-05"
FilterDefault(f) ==
  CASE f = "selectedCity" -> JString("Amsterdam")
    [] f \in ListFields -> JArray(<<>>)
    [] f \in {"startTime", "endTime"} -> JNull
    [] OTHER -> JString(Today)
DefaultFilters == [f \in FilterFields |-> FilterDefault(f)]

\* loadStoredFilters: null when nothing usable is stored.
LoadStoredFilters(doc) ==
  IF NothingStored(doc) THEN Null
  ELSE IF ParseFails(doc) THEN Null
  ELSE IF doc.kind = "null" THEN Null
  ELSE Some([f \in FilterFields |-> Coalesce(PropertyOf(doc, f), FilterDefault(f))])

\* useState(() => loadStoredFilters() || { ...defaults })
InitialFilters(doc) ==
  IF LoadStoredFilters(doc) = Null THEN DefaultFilters ELSE Val(LoadStoredFilters(doc))

NoFields == [f \in FilterFields |-> Undefined]
FilterObject(changes) ==
  Document("object", [f \in FilterFields |-> IF f \in DOMAIN changes THEN changes[f] ELSE Undefined], <<>>)
StoredFilterFields ==
  [ selectedCity |-> JString("Utrecht"), selectedTheaters |-> JArray(<<"t3">>),
    selectedSubtitleLanguages |-> JArray(<<>>), selectedSpokenLanguages |-> JArray(<<"en">>),
    selectedSpecials |-> JArray(<<"3D">>), startTime |-> JString("18:00"), endTime |-> JNull,
    startDate |-> JString("2026-11-04"), endDate |-> JString("2026-11-06") ]

\* The local state of the filter panel: texts, '' where nothing is chosen.
PanelState ==
  [StoredFilterFields EXCEPT !.endTime = JString("")]
\* handleClearFilters
ClearedPanelState ==
  [f \in FilterFields |-> IF f \in ListFields THEN JArray(<<>>) ELSE JString("")]
PanelStates ==
  { PanelState, [PanelState EXCEPT !.selectedCity = JString("")], ClearedPanelState }

\* The effect of the filter panel that reports its criteria: text || null.
OnFiltersChange(panel) ==
  [f \in FilterFields |-> IF f \in ListFields THEN panel[f] ELSE OrElse(panel[f], JNull)]

\* localStorage.setItem(FILTERS_STORAGE_KEY, JSON.stringify(filters)), as
\* JSON.parse reads it back: an object with every field of the criteria, null
\* where the criteria have null.
PersistedFilters(criteria) == Document("object", criteria, <<>>)
PersistedFilterDocuments == {PersistedFilters(OnFiltersChange(p)) : p \in PanelStates}

\* The documents the filter key may hold.
FilterDocuments ==
  PersistedFilterDocuments \cup
  { Document("absent", NoFields, <<>>),
    Document("empty", NoFields, <<>>),
    Document("invalid", NoFields, <<>>),
    Document("null", NoFields, <<>>),
    Document("scalar", NoFields, <<>>),
    Document("array", NoFields, <<>>),
    FilterObject(<<>>),
    FilterObject(StoredFilterFields),
    FilterObject([StoredFilterFields EXCEPT !.selectedCity = JNull]),
    FilterObject([selectedCity |-> JString("Utrecht")]),
    FilterObject([StoredFilterFields EXCEPT !.selectedTheaters = JString("t3")]),
    FilterObject([StoredFilterFields EXCEPT !.selectedCity = JNumber(5)]),
    FilterObject([StoredFilterFields EXCEPT !.startDate = JBoolean(FALSE)]) }

\* ---- the saved-showtime key
SavedFields ==
  { "movieId", "movieTitle", "posterPath", "showtimeId", "startDate", "endDate",
    "theaterId", "theaterName", "theaterCity", "ticketingUrl" }
\* An item of the stored array: an object with fields, or null.
SavedItem(isObject, fields) == [isObject |-> isObject, fields |-> fields]
NullItem == SavedItem(FALSE, [f \in SavedFields |-> Undefined])
SavedObject(changes) ==
  SavedItem(TRUE, [f \in SavedFields |-> IF f \in DOMAIN changes THEN changes[f] ELSE Undefined])
StoredSavedFields ==
  [ movieId |-> JString("f1"), movieTitle |-> JString("Film"), posterPath |-> JString("p1.jpg"),
    showtimeId |-> JString("s1"), startDate |-> JString("2026-11-05T19:00"),
    endDate |-> JString("2026-11-05T21:00"), theaterId |-> JString("t1"),
    theaterName |-> JString("Kriterion"), theaterCity |-> JString("Amsterdam"),
    ticketingUrl |-> JString("https://tickets") ]

\* .filter((item) => item && item.showtimeId && item.movieId && item.startDate)
KeepSavedItem(item) ==
  /\ item.isObject
  /\ ToBoolean(item.fields["showtimeId"])
  /\ ToBoolean(item.fields["movieId"])
  /\ ToBoolean(item.fields["startDate"])
\* .map((item) => ({ ... }))
MapSavedItem(item) ==
  [f \in SavedFields |->
     CASE f \in {"posterPath", "theaterCity"} -> OrElse(item.fields[f], JString(""))
       [] f = "ticketingUrl" -> Coalesce(item.fields[f], JNull)
       [] OTHER -> item.fields[f]]

\* useState(() => ...) of savedShowtimes
InitialSavedShowtimes(doc) ==
  IF NothingStored(doc) THEN <<>>
  ELSE IF ParseFails(doc) THEN <<>>
  ELSE IF doc.kind # "array" THEN <<>>
  ELSE LET kept == SelectSeq(doc.items, KeepSavedItem)
       IN [i \in 1..Len(kept) |-> MapSavedItem(kept[i])]

\* The documents the saved-showtime key may hold.
SavedDocuments ==
  { Document("absent", <<>>, <<>>),
    Document("invalid", <<>>, <<>>),
    Document("null", <<>>, <<>>),
    Document("object", <<>>, <<>>),
    Document("array", <<>>, <<>>),
    Document("array", <<>>, << SavedObject(StoredSavedFields) >>),
    Document("array", <<>>, << NullItem, SavedObject(StoredSavedFields) >>),
    Document("array", <<>>, << SavedObject([StoredSavedFields EXCEPT !.showtimeId = Undefined]) >>),
    Document("array", <<>>, << SavedObject([StoredSavedFields EXCEPT !.posterPath = Undefined,
                                                                     !.ticketingUrl = Undefined]) >>),
    Document("array", <<>>, << SavedObject([StoredSavedFields EXCEPT !.movieTitle = JNumber(5)]) >>),
    Document("array", <<>>, << SavedObject([StoredSavedFields EXCEPT !.theaterName = Undefined]) >>) }

\* ---- the timeline-preference key
PrefFields == {"availabilityMode", "bufferMinutes", "hideSameMovie"}
PrefObject(changes) ==
  Document("object", [f \in PrefFields |-> IF f \in DOMAIN changes THEN changes[f] ELSE Undefined], <<>>)

\* useState(() => ...) of availabilityMode
InitialAvailabilityMode(doc) ==
  IF NothingStored(doc) THEN "highlight"
  ELSE IF ParseFails(doc) THEN "highlight"
  ELSE LET v == PropertyOf(doc, "availabilityMode")
       IN IF v.t = "string" /\ v.s = "hide" THEN "hide" ELSE "highlight"
\* useState(() => ...) of bufferMinutes
InitialBufferMinutes(doc) ==
  IF NothingStored(doc) THEN DefaultBufferMinutes
  ELSE IF ParseFails(doc) THEN DefaultBufferMinutes
  ELSE LET value == ToNumber(PropertyOf(doc, "bufferMinutes"))
       IN IF value # Null THEN Val(value) ELSE DefaultBufferMinutes
\* useState(() => ...) of hideSameMovie
InitialHideSameMovie(doc) ==
  IF NothingStored(doc) THEN FALSE
  ELSE IF ParseFails(doc) THEN FALSE
  ELSE ToBoolean(PropertyOf(doc, "hideSameMovie"))

NoPrefs == [f \in PrefFields |-> Undefined]
StoredPrefFields ==
  [ availabilityMode |-> JString("hide"), bufferMinutes |-> JNumber(30),
    hideSameMovie |-> JBoolean(TRUE) ]

\* The documents the timeline-preference key may hold.
PrefDocuments ==
  { Document("absent", NoPrefs, <<>>),
    Document("invalid", NoPrefs, <<>>),
    Document("null", NoPrefs, <<>>),
    Document("array", NoPrefs, <<>>),
    PrefObject(<<>>),
    PrefObject(StoredPrefFields),
    PrefObject([availabilityMode |-> JString("hide")]),
    PrefObject([StoredPrefFields EXCEPT !.availabilityMode = JNumber(1)]),
    PrefObject([StoredPrefFields EXCEPT !.bufferMinutes = JNull]),
    PrefObject([StoredPrefFields EXCEPT !.bufferMinutes = JString("20")]),
    PrefObject([StoredPrefFields EXCEPT !.bufferMinutes = JString("soon")]),
    PrefObject([StoredPrefFields EXCEPT !.hideSameMovie = JString("false")]) }

\* ---- the components read their stored state
\* localStorage as an earlier visit, another version or the user left it.
StoreInit ==
  /\ storage \in [ filters : FilterDocuments, saved : SavedDocuments, prefs : PrefDocuments ]
  /\ loaded = [gallery |-> Null, timeline |-> Null]

\* The first render of MovieGallery: the initializers of savedShowtimes and filters.
GalleryInitialState ==
  /\ loaded.gallery = Null
  /\ loaded' = [loaded EXCEPT !.gallery =
                  Some([ filters |-> InitialFilters(storage.filters),
                         savedShowtimes |-> InitialSavedShowtimes(storage.saved) ])]
  /\ UNCHANGED storage
  /\ UNCHANGED <<svcVars, galVars, aggVars, tlVars>>

\* The first render of MovieTimeline, inside the gallery: the initializers of
\* availabilityMode, bufferMinutes and hideSameMovie.
TimelineInitialState ==
  /\ loaded.gallery # Null
  /\ loaded.timeline = Null
  /\ loaded' = [loaded EXCEPT !.timeline =
                  Some([ availabilityMode |-> InitialAvailabilityMode(storage.prefs),
                         bufferMinutes |-> InitialBufferMinutes(storage.prefs),
                         hideSameMovie |-> InitialHideSameMovie(storage.prefs) ])]
  /\ UNCHANGED storage
  /\ UNCHANGED <<svcVars, galVars, aggVars, tlVars>>

\* ------------------------------------------------------------------ specifications
Init == GalleryInit /\ AggIdle /\ TimelineIdle /\ StoreIdle

Next ==
  \/ Mount
  \/ \E f \in FilterSet : FiltersChange(f)
  \/ \E c \in CallIds, ok \in BOOLEAN : VenueResponse(c, ok)
  \/ \E c \in DataCalls, ok \in BOOLEAN : ShowtimesResponse(c, ok)

Spec == Init /\ [][Next]_vars

AggregationInit == GalleryIdle /\ AggInit /\ TimelineIdle /\ StoreIdle

AggNext ==
  \/ GetPopularMovies
  \/ \E i \in 1..MaxShowtimes : ReorderResponse(i)

SpecAgg == AggregationInit /\ [][AggNext]_vars

TimelineAnchorInit == GalleryIdle /\ AggIdle /\ AnchorInit /\ StoreIdle

AnchorNext ==
  \/ \E r \in TimelineRows : HandleShowtimeClick(r)
  \/ \E typed \in TypedBuffers : SetBufferMinutes(typed)
  \/ ToggleHideSameMovie
  \/ \E mode \in {"highlight", "hide"} : SetAvailabilityMode(mode)

SpecAnchor == TimelineAnchorInit /\ [][AnchorNext]_vars

TimelineOrderInit == GalleryIdle /\ AggIdle /\ OrderInit /\ StoreIdle

OrderNext ==
  \/ \E list \in MovieLists : MoviesChange(list)
  \/ \E id \in {"t1", "t2", "t3", "t4"} : HandleTheaterDragStart(id)
  \/ \E id \in {"t1", "t2", "t3", "t4"} : HandleTheaterDrop(id)

SpecOrder == TimelineOrderInit /\ [][OrderNext]_vars

\* A visit of the timeline: film lists come and go while the user selects
\* anchors, sets preferences and drags columns.
SessionBuffers == {Some(0)}
MaxSessionClicks == 1
SessionLists ==
  { << TimelineMovie("m1", << OrderShowtime(1, V1), OrderShowtime(2, V2) >>),
       TimelineMovie("m2", << OrderShowtime(3, V3) >>) >>,
    << TimelineMovie("m1", << OrderShowtime(2, V2) >>),
       TimelineMovie("m2", << OrderShowtime(3, V3), OrderShowtime(4, V4) >>) >> }

\* The columns the user drags and drops on.
SessionColumns == {"t2", "t3"}

\* First visit: nothing stored.
SessionInit == OrderInit /\ storedTheaterOrder = Null

TimelineSessionInit == GalleryIdle /\ AggIdle /\ SessionInit /\ StoreIdle

SessionNext ==
  \/ \E list \in SessionLists : MoviesChange(list)
  \/ \E id \in SessionColumns : HandleTheaterDragStart(id)
  \/ \E id \in SessionColumns : HandleTheaterDrop(id)
  \/ \E r \in TimelineRows : Len(clicks) < MaxSessionClicks /\ HandleShowtimeClick(r)
  \/ \E typed \in SessionBuffers : SetBufferMinutes(typed)
  \/ ToggleHideSameMovie
  \/ \E mode \in {"highlight", "hide"} : SetAvailabilityMode(mode)

SpecSession == TimelineSessionInit /\ [][SessionNext]_vars

StoredStateInit == GalleryIdle /\ AggIdle /\ TimelineIdle /\ StoreInit

StoreNext ==
  \/ GalleryInitialState
  \/ TimelineInitialState

SpecStore == StoredStateInit /\ [][StoreNext]_vars

\* ------------------------------------------------------------------ claims: aggregation
FilmIdsOf(data) ==
  { Val(data[i].film).id : i \in { j \in 1..Len(data) : data[j].film # Null } }
RecordsOfFilm(data, filmId) ==
  { i \in 1..Len(data) : data[i].film # Null /\ Val(data[i].film).id = filmId }
ResultIds(res) == { res.results[k].id : k \in 1..Len(res.results) }
SurvivingIds(filmId) ==
  { response[i].id : i \in { j \in RecordsOfFilm(response, filmId) :
                              Survives(response[j], aggFilters) } }

\* C1: every film that getPopularMovies returns has a non-empty poster URL and
\* at least one showtime, each of them a record the specials predicate kept; a
\* film all of whose records the specials predicate removes is not returned.
C1_PosterAndShowtimes ==
  (aggResult # Null /\ Val(aggResult).ok) =>
    LET res == Val(aggResult)
    IN /\ \A k \in 1..Len(res.results) :
            /\ res.results[k].poster_path # ""
            /\ Len(res.results[k].showtimes) >= 1
            /\ \A i \in 1..Len(res.results[k].showtimes) :
                  res.results[k].showtimes[i].id \in SurvivingIds(res.results[k].id)
       /\ \A id \in FilmIdsOf(response) :
            SurvivingIds(id) = {} => id \notin ResultIds(res)

\* A call returned a film, left out a film without poster and left out a film
\* whose records all failed the specials predicate.
C1_Witness ==
  /\ aggResult # Null
  /\ Val(aggResult).ok
  /\ Len(Val(aggResult).results) >= 1
  /\ \E id \in FilmIdsOf(response) : SurvivingIds(id) = {} /\ id \notin ResultIds(Val(aggResult))
  /\ \E id \in FilmIdsOf(response) : SurvivingIds(id) # {} /\ id \notin ResultIds(Val(aggResult))

\* What two outputs are compared on: the films, each with its payload, its
\* three facet sets and its set of showtimes.
OutputView(res) ==
  [ ok |-> res.ok,
    films |-> { [ id |-> res.results[k].id,
                  poster_path |-> res.results[k].poster_path,
                  spokenLanguages |-> res.results[k].spokenLanguages,
                  availableSubtitles |-> SeqToSet(res.results[k].availableSubtitles),
                  availableLanguageVersions |-> SeqToSet(res.results[k].availableLanguageVersions),
                  availableSpecials |-> SeqToSet(res.results[k].availableSpecials),
                  showtimes |-> SeqToSet(res.results[k].showtimes) ] :
                k \in 1..Len(res.results) } ]

\* All records of one film id carry the same film payload.
ConsistentPayloads ==
  \A i, j \in 1..Len(response) :
     (response[i].film # Null /\ response[j].film # Null
        /\ Val(response[i].film).id = Val(response[j].film).id)
     => response[i].film = response[j].film

Reordered == \E i, j \in 1..Len(response) : i < j /\ response[i].id > response[j].id

\* C6 as stated: the output for a reordered list equals the output for the
\* list in its first order, whatever the records are.
C6_StableUnderPermutation ==
  (aggResult # Null /\ baseline # Null) =>
     OutputView(Val(aggResult)) = OutputView(Val(baseline))

\* C6, amended: the output for a reordered list equals the output for the list
\* in its first order, provided all records of one film id carry the same
\* film payload.
C6_StableForConsistentPayloads ==
  (aggResult # Null /\ baseline # Null /\ ConsistentPayloads) =>
     OutputView(Val(aggResult)) = OutputView(Val(baseline))

\* A reordered list with consistent payloads was aggregated, and a returned film
\* has two showtimes whose labels differ.
C6_Witness ==
  /\ aggResult # Null
  /\ baseline # Null
  /\ ConsistentPayloads
  /\ Reordered
  /\ \E k \in 1..Len(Val(aggResult).results) :
        /\ Len(Val(aggResult).results[k].showtimes) >= 2
        /\ Val(aggResult).results[k].showtimes[1].specials #
             Val(aggResult).results[k].showtimes[2].specials

\* The records of the response that carry both a film and a theater.
WellFormed(data) == SelectSeq(data, LAMBDA s : s.film # Null /\ s.theater # Null)

\* C11: a record without film or without theater is skipped: the call succeeds
\* and returns what it returns for the response without those records.
C11_MalformedSkipped ==
  aggResult # Null =>
    /\ Val(aggResult).ok
    /\ OutputView(Val(aggResult)) =
         OutputView(GetPopularMoviesResult(WellFormed(response), aggFilters))

\* label contains sel as a substring, letter case ignored.
ContainsIgnoreCase(label, sel) ==
  \E i \in 0..(Len(label) - Len(sel)) :
     \A k \in 1..Len(sel) : LowerChar(label[i + k]) = LowerChar(sel[k])
ExpectedToSurvive(record) ==
  \/ Len(aggFilters.selectedSpecials) = 0
  \/ /\ record.specials # Null
     /\ \E n \in 1..Len(aggFilters.selectedSpecials) :
           ContainsIgnoreCase(Val(record.specials), aggFilters.selectedSpecials[n])
ShowtimeIdsOf(movie) == { movie.showtimes[i].id : i \in 1..Len(movie.showtimes) }

\* C13: the showtimes of a returned film are exactly the records of the film
\* whose specials label contains, letter case ignored, one of the selected
\* specials (all its records when none is selected); a film with such a record
\* and a poster is returned when no language is selected.
C13_SpecialsPredicate ==
  (aggResult # Null /\ Val(aggResult).ok) =>
    LET res == Val(aggResult)
    IN /\ \A k \in 1..Len(res.results) :
            ShowtimeIdsOf(res.results[k]) =
              { response[i].id : i \in { j \in RecordsOfFilm(response, res.results[k].id) :
                                          ExpectedToSurvive(response[j]) } }
       /\ \A id \in FilmIdsOf(response) :
            ( /\ \E i \in RecordsOfFilm(response, id) : ExpectedToSurvive(response[i])
              /\ \A i \in RecordsOfFilm(response, id) : PosterPath(Val(response[i].film)) # ""
              /\ aggFilters.selectedSubtitleLanguages = <<>>
              /\ aggFilters.selectedSpokenLanguages = <<>> )
            => id \in ResultIds(res)

\* With two specials selected, a film was returned with one record kept for its
\* label and others dropped: one for another label, one for having no label.
C13_Witness ==
  /\ aggResult # Null
  /\ Val(aggResult).ok
  /\ Len(aggFilters.selectedSpecials) = 2
  /\ \E k \in 1..Len(Val(aggResult).results) :
        LET recs == RecordsOfFilm(response, Val(aggResult).results[k].id)
        IN /\ \E i \in recs : response[i].specials = Null
           /\ \E i \in recs : response[i].specials # Null /\ ~ExpectedToSurvive(response[i])
           /\ \E i \in recs : response[i].id \in ShowtimeIdsOf(Val(aggResult).results[k])

\* A list of labels without an empty label, a label with a space at either end,
\* or a label that occurs twice.
CleanLabels(labels) ==
  /\ \A i \in 1..Len(labels) :
        /\ labels[i] # <<>>
        /\ labels[i][1] # " "
        /\ labels[i][Len(labels[i])] # " "
  /\ \A i, j \in 1..Len(labels) : labels[i] = labels[j] => i = j
\* The records of a film that the specials predicate keeps.
KeptRecords(filmId) ==
  { i \in RecordsOfFilm(response, filmId) : ExpectedToSurvive(response[i]) }

\* C19: each facet list of a returned film has no empty, untrimmed or repeated
\* label, and as a set it is the trimmed non-empty labels of the film's records
\* that the specials predicate kept.
C19_FacetSets ==
  (aggResult # Null /\ Val(aggResult).ok) =>
    \A k \in 1..Len(Val(aggResult).results) :
       LET m == Val(aggResult).results[k]
           kept == KeptRecords(m.id)
       IN /\ CleanLabels(m.availableSubtitles)
          /\ CleanLabels(m.availableLanguageVersions)
          /\ CleanLabels(m.availableSpecials)
          /\ SeqToSet(m.availableSubtitles) =
               { Trim(response[i].subtitles) : i \in kept } \ { <<>> }
          /\ SeqToSet(m.availableLanguageVersions) =
               { Trim(OrEmpty(response[i].languageVersion)) : i \in kept } \ { <<>> }
          /\ SeqToSet(m.availableSpecials) =
               { Trim(OrEmpty(response[i].specials)) : i \in kept } \ { <<>> }

\* A returned film has a record that the specials predicate dropped, two kept
\* records with the same labels and labels that had to be trimmed.
C19_Witness ==
  /\ aggResult # Null
  /\ Val(aggResult).ok
  /\ \E k \in 1..Len(Val(aggResult).results) :
        LET m == Val(aggResult).results[k]
        IN /\ KeptRecords(m.id) # RecordsOfFilm(response, m.id)
           /\ Cardinality(KeptRecords(m.id)) = 2
           /\ Len(m.availableSubtitles) = 1
           /\ \E i \in KeptRecords(m.id) : Trim(response[i].subtitles) # response[i].subtitles

\* ------------------------------------------------------------------ claims: timeline anchor
NonAnchorRows == { r \in TimelineRows : ~IsAnchorShowtime(r) }

\* C2: with an anchor ending at T and a buffer of B milliseconds (B >= 0), a
\* non-anchor showing starting at or after T + B is classified available, and
\* one starting before T + B is classified blocked.
C2_AvailabilityClassification ==
  SelectedAnchorEnd # Null =>
    \A r \in NonAnchorRows :
       LET T == Val(SelectedAnchorEnd)
           B == BufferTimeMs
       IN IF RowShowtime(r).startDate >= T + B
          THEN IsAvailableAfterSelected(r) /\ ~IsBlockedBySelection(r)
          ELSE IsBlockedBySelection(r) /\ ~IsAvailableAfterSelected(r)

\* An anchor ending at instant 0 with a showing on either side of T + B.
C2_Witness ==
  /\ availabilityMode = "highlight"
  /\ SelectedAnchorEnd = Some(0)
  /\ BufferTimeMs = MinuteMs
  /\ \E r \in NonAnchorRows : RowShowtime(r).startDate = MinuteMs
  /\ \E r \in NonAnchorRows : RowShowtime(r).startDate = MinuteMs - 1

LastClick == clicks[Len(clicks)]
Target(click) == [movieId |-> click.movieId, showtimeId |-> click.showtimeId]

\* C3: selecting a showing that is not the anchor makes it the anchor; selecting
\* the anchor clears the anchor; two selections of the same showing in a row,
\* the first made with no anchor, leave no anchor.
C3_AnchorToggle ==
  /\ Len(clicks) >= 1 =>
       IF LastClick.before = Some(Target(LastClick))
       THEN selectedAnchor = Null
       ELSE selectedAnchor = Some(Target(LastClick))
  /\ (Len(clicks) = 2 /\ Target(clicks[1]) = Target(clicks[2]) /\ clicks[1].before = Null)
       => selectedAnchor = Null

\* The same showing was selected twice in a row, starting from no anchor.
C3_Witness ==
  /\ Len(clicks) = 2
  /\ Target(clicks[1]) = Target(clicks[2])
  /\ clicks[1].before = Null
  /\ selectedAnchor = Null

\* C14: with no anchor set, no showing is classified available or blocked, none
\* is highlighted and none is hidden, whatever the buffer, the availability mode
\* and the same-film flag are.
C14_NoAnchorNoVerdict ==
  selectedAnchor = Null =>
    \A r \in TimelineRows :
       /\ ~IsAvailableAfterSelected(r)
       /\ ~IsBlockedBySelection(r)
       /\ ~Highlighted(r)
       /\ ~ShouldHideRow(r)

\* The anchor was cleared by a second click while the rows of blocked showings
\* and of the anchor's film were being hidden and the buffer was not the default.
C14_Witness ==
  /\ selectedAnchor = Null
  /\ Len(clicks) = 2
  /\ hideSameMovie
  /\ availabilityMode = "hide"
  /\ bufferMinutes # DefaultBufferMinutes

AnchorRows == { r \in TimelineRows : IsAnchorShowtime(r) }

\* C16: the anchor showing is never classified available, never highlighted as
\* available, never classified blocked and never hidden, whatever its own start
\* and end are.
C16_AnchorIsOnlyAnchor ==
  \A r \in AnchorRows :
     /\ ~IsAvailableAfterSelected(r)
     /\ ~Highlighted(r)
     /\ ~IsBlockedBySelection(r)
     /\ ~ShouldHideRow(r)

\* The rows the claim calls same-film-suppressed.
SameFilmAsAnchor(r) ==
  /\ selectedAnchor # Null
  /\ RowMovie(r).id = Val(selectedAnchor).movieId
  /\ ~(RowMovie(r).id = Val(selectedAnchor).movieId
         /\ RowShowtime(r).id = Val(selectedAnchor).showtimeId)
HiddenAsBlocked(r) ==
  availabilityMode = "hide" /\ SelectedAnchorEnd # Null /\ IsBlockedBySelection(r)

\* C17: a row is hidden as a showing of the anchor's film iff the same-film flag
\* is set, an anchor is set, the row's film is the anchor's and the row is not
\* the anchor; such a row is hidden in both availability modes and whether it
\* is available or blocked, and no other row is hidden unless it is hidden as
\* blocked.
C17_SameFilmSuppression ==
  \A r \in TimelineRows :
     /\ HideSameMovieRow(r) <=> (hideSameMovie /\ SameFilmAsAnchor(r))
     /\ (hideSameMovie /\ SameFilmAsAnchor(r)) => ShouldHideRow(r)
     /\ (ShouldHideRow(r) /\ ~HiddenAsBlocked(r)) => (hideSameMovie /\ SameFilmAsAnchor(r))

\* In highlight mode an available showing of the anchor's film is hidden.
C17_Witness ==
  /\ availabilityMode = "highlight"
  /\ hideSameMovie
  /\ \E r \in TimelineRows :
        /\ SameFilmAsAnchor(r)
        /\ IsAvailableAfterSelected(r)
        /\ ShouldHideRow(r)

\* C18: the buffer the availability threshold is computed with is never
\* negative and never more than 180 minutes.
C18_BufferWithinRange ==
  /\ BufferTimeMs >= 0
  /\ BufferTimeMs <= MaxBufferMinutes * MinuteMs

\* ------------------------------------------------------------------ claims: venue order
\* The ids of S in directory (name-ascending) order.
DirectoryOrder(S) ==
  MapIds(SortByName(SelectSeq(<<V1, V2, V3, V4>>, LAMBDA v : v.id \in S)))

ExpectedOrder(P, S) ==
  SelectSeq(P, LAMBDA id : id \in S) \o
  SelectSeq(DirectoryOrder(S), LAMBDA id : id \notin SeqToSet(P))

\* C5: when the venue order is merged with the venues of a new, non-empty
\* result, it becomes the ids of the previous order that are in the result, in
\* their previous relative order, followed by the other ids of the result in
\* name order; the columns are drawn in that order.
C5_MergedOrder ==
  [][ (timelineMovies' # timelineMovies /\ Len(UniqueTheaters(timelineMovies')) > 0) =>
        LET P == Val(mergeBase').prev
            S == SeqToSet(Val(mergeBase').currentIds)
        IN /\ theaterOrder' = ExpectedOrder(P, S)
           /\ OrderedTheaterIds(theaterOrder', UniqueTheaters(timelineMovies')) = ExpectedOrder(P, S)
    ]_vars

\* The stored order [Kriterion, Eye] met the venues {Eye, Hartlooper, Kriterion}.
C5_Witness ==
  /\ mergeBase = Some([prev |-> <<"t1", "t2">>, currentIds |-> <<"t2", "t3", "t1">>])
  /\ theaterOrder = <<"t1", "t2", "t3">>

\* What the claim expects of dropping the dragged venue on venue T.
ExpectedAfterDrop(T) ==
  LET D == Val(draggingTheater)
      P == theaterOrder
      N == theaterOrder'
  IN IF Includes(P, D) /\ Includes(P, T) /\ D # T
     THEN /\ Len(N) = Len(P)
          /\ SeqToSet(N) = SeqToSet(P)
          /\ N[IndexOf(P, T)] = D
          /\ SelectSeq(N, LAMBDA id : id # D) = SelectSeq(P, LAMBDA id : id # D)
     ELSE N = P

\* C20: dropping venue D on another venue T of the order moves D to the index T
\* had and keeps the other ids in their relative order; when D or T is not in
\* the order, the order stays as it is.
C20_DropIsSplice ==
  [][ \A T \in {"t1", "t2", "t3", "t4"} : HandleTheaterDrop(T) => ExpectedAfterDrop(T) ]_vars

\* Kriterion, first of [Kriterion, Eye, Hartlooper], was dropped on Hartlooper.
C20_Witness ==
  /\ mergeBase = Some([prev |-> <<"t1", "t2">>, currentIds |-> <<"t2", "t3", "t1">>])
  /\ theaterOrder = <<"t2", "t3", "t1">>
  /\ draggingTheater = Null

\* ------------------------------------------------------------------ claims: service and gallery
VenueIdsResolved(c) == calls[c].venueIds # Null
CatalogIds == {catalog[i].id : i \in 1..Len(catalog)}
CatalogIdsOfCity(cityName) == {catalog[i].id : i \in {j \in 1..Len(catalog) : catalog[j].city = cityName}}

\* C4: resolveVenueIds is a strict three-way precedence: a non-empty explicit
\* venue list is returned as it is (no helper runs, the city is ignored);
\* otherwise, with a city selected, exactly what getTheaterIdsByCity returned
\* (ids of venues of that city only); otherwise exactly what getAllTheaterIds
\* returned. Never a union of these.
C4_VenueScopePrecedence ==
  \A c \in DataCalls : VenueIdsResolved(c) =>
    LET f == calls[c].filters
        ids == Val(calls[c].venueIds)
    IN /\ Len(f.selectedTheaters) > 0 =>
            ids = f.selectedTheaters /\ calls[c].helperIds = Null /\ calls[c].fetch = "none"
       /\ Len(f.selectedTheaters) = 0 /\ f.selectedCity # Null =>
            /\ calls[c].helperIds = Some(ids)
            /\ SeqToSet(ids) \subseteq CatalogIdsOfCity(Val(f.selectedCity))
            /\ calls[c].fetch = "ok" => ids = IdsInCity(catalog, Val(f.selectedCity))
       /\ Len(f.selectedTheaters) = 0 /\ f.selectedCity = Null =>
            /\ calls[c].helperIds = Some(ids)
            /\ SeqToSet(ids) \subseteq CatalogIds
            /\ calls[c].fetch = "ok" => ids = MapIds(catalog)

\* C4 witness: explicit venues and a city are both set, the city has other
\* venues than the explicit ones, and the explicit list was returned.
C4_Witness ==
  \E c \in DataCalls :
    /\ VenueIdsResolved(c)
    /\ calls[c].filters = Filters(Some("Amsterdam"), <<"t3">>)
    /\ catalog = FullDirectory
    /\ theatersCache # Null
    /\ Val(calls[c].venueIds) = <<"t3">>

\* C7 (as claimed): a loadData run writes the film list or the specials list
\* only if it is the run of the latest filter change.
C7_StaleResultNeverWritten ==
  [][ /\ movies' # movies => movies'.gen = gen'
      /\ availableSpecials' # availableSpecials => availableSpecials'.gen = gen' ]_vars

VenueFetchCompleted == \E c \in CallIds : calls[c].fetch \in {"ok", "failed"}

\* C8 (as claimed): until the first venue-listing fetch has completed, at most
\* one venue-listing request has been issued.
C8_FirstPopulationSingleFlight ==
  ~VenueFetchCompleted => venueRequests <= 1

\* C9: a call started after a venue-listing fetch completed successfully issues
\* no venue-listing request, and what loadTheaters returns to it is the fetched
\* list (also when that list is empty).
C9_CachedDirectoryReused ==
  \A c \in CallIds : calls[c].afterSuccess =>
    /\ calls[c].fetch = "none"
    /\ calls[c].loadAll # Null => Val(calls[c].loadAll) = [status |-> "ok", value |-> catalog]

\* C9 witness: the fetched list is empty and a later call went through
\* loadTheaters.
C9_Witness ==
  \E c \in CallIds :
    /\ calls[c].afterSuccess
    /\ calls[c].loadAll # Null
    /\ catalog = <<>>
    /\ calls[c].pc = "awaitShowtimes"

\* C10 (as claimed): a loadTheaters whose venue-listing fetch failed reports
\* UpstreamUnavailable to its caller, not a successful list.
C10_FailedFetchReported ==
  \A c \in CallIds : calls[c].fetch = "failed" =>
    Val(calls[c].loadAll).status = "UpstreamUnavailable"

IsStringOrNull(v) == v.t \in {"string", "null"}
FilterTypeOk(f, v) == IF f \in ListFields THEN v.t = "array" ELSE IsStringOrNull(v)
SavedTypeOk(f, v) == IF f = "ticketingUrl" THEN IsStringOrNull(v) ELSE v.t = "string"
SavedHasDefault(f) == f \in {"posterPath", "theaterCity", "ticketingUrl"}
SavedDefault(f) == IF f = "ticketingUrl" THEN JNull ELSE JString("")
KeptSavedItems == SelectSeq(storage.saved.items, KeepSavedItem)

FiltersLoadedWell ==
  \A f \in FilterFields :
     LET v == Val(loaded.gallery).filters[f]
     IN \/ v = FilterDefault(f)
        \/ v = PropertyOf(storage.filters, f) /\ FilterTypeOk(f, v)
SavedLoadedWell ==
  LET items == Val(loaded.gallery).savedShowtimes
  IN \A i \in 1..Len(items) : \A f \in SavedFields :
        \/ SavedHasDefault(f) /\ items[i][f] = SavedDefault(f)
        \/ items[i][f] = KeptSavedItems[i].fields[f] /\ SavedTypeOk(f, items[i][f])
PrefsLoadedWell ==
  LET p == Val(loaded.timeline)
  IN /\ \/ p.availabilityMode = "highlight"
        \/ PropertyOf(storage.prefs, "availabilityMode") = JString(p.availabilityMode)
     /\ \/ p.bufferMinutes = DefaultBufferMinutes
        \/ PropertyOf(storage.prefs, "bufferMinutes") = JNumber(p.bufferMinutes)
     /\ \/ p.hideSameMovie = FALSE
        \/ PropertyOf(storage.prefs, "hideSameMovie") = JBoolean(p.hideSameMovie)

\* C15: whatever the three keys hold, each field of the initial state read from
\* them is the stored value, of the type the field has, or the field's default.
C15_StoredStateTolerated ==
  /\ loaded.gallery # Null => (FiltersLoadedWell /\ SavedLoadedWell)
  /\ loaded.timeline # Null => PrefsLoadedWell

\* ------------------------------------------------------------------ claims: gallery retry and loading
\* C21: after a failed showtime fetch the user can still change the filters (and
\* so start a new attempt): the filter panel is there while the error is shown.
C21_RetryByFilterChange ==
  (mounted /\ error # Null) => FiltersPanelRendered

\* C30 (as claimed): while the loadData run of the latest filter change has not
\* settled, both loading flags are true, whatever earlier runs completed.
C30_LoadingWhileLatestPending ==
  (gen >= 1 /\ ~settled[gen]) => (loading /\ specialsLoading)

\* ------------------------------------------------------------------ claims: id caches and query
CityCall(c, cityName) ==
  /\ VenueScope(calls[c].filters) = "city"
  /\ calls[c].filters.selectedCity = Some(cityName)

\* The ids of the venues of `list` whose city is exactly cityName.
IdsOfCityIn(list, cityName) ==
  {list[i].id : i \in {j \in 1..Len(list) : list[j].city = cityName}}

\* getTheaterIdsByCity computed the ids for call c from the list that
\* loadTheaters returned to it.
ComputedForCity(c, cityName) ==
  /\ CityCall(c, cityName)
  /\ calls[c].loadAll # Null
  /\ VenueIdsResolved(c)

\* A call for cityName starts in this step, and the ids of cityName had been
\* computed before.
StartsWithCityCached(c, cityName) ==
  /\ calls[c].pc = "idle"
  /\ calls'[c].pc # "idle"
  /\ VenueScope(calls'[c].filters) = "city"
  /\ calls'[c].filters.selectedCity = Some(cityName)
  /\ cityTheaterIdsCache[cityName] # Null

\* C22: getTheaterIdsByCity(c) computes exactly the ids of the venues, in the
\* list loadTheaters gave it, whose city equals c (case-sensitive, no id twice);
\* a call for c that starts once the ids of c are computed, an empty list
\* included, returns the computed list, and neither goes through loadTheaters
\* nor issues a venue-listing request nor writes the cache.
C22_CityIdsComputedOnce ==
  /\ [](\A c \in DataCalls : \A cityName \in CityNames :
          ComputedForCity(c, cityName) =>
            LET ids == Val(calls[c].venueIds)
                list == Val(calls[c].loadAll).value
            IN /\ SeqToSet(ids) = IdsOfCityIn(list, cityName)
               /\ Len(ids) = Cardinality(IdsOfCityIn(list, cityName)))
  /\ [][\A c \in DataCalls : \A cityName \in CityNames :
          StartsWithCityCached(c, cityName) =>
            /\ calls'[c].venueIds = cityTheaterIdsCache[cityName]
            /\ calls'[c].helperIds = cityTheaterIdsCache[cityName]
            /\ calls'[c].loadAll = Null
            /\ calls'[c].fetch = "none"
            /\ venueRequests' = venueRequests
            /\ cityTheaterIdsCache' = cityTheaterIdsCache]_vars

\* C22 witness: the directory has a venue whose city differs from the selected
\* one in case only; its id is not in the computed list, and a later call for
\* the city got the computed list without a request.
C22_Witness ==
  \E c \in DataCalls :
    /\ CityCall(c, "Amsterdam")
    /\ \E i \in 1..Len(catalog) : catalog[i].city = "amsterdam"
    /\ calls[c].loadAll = Null
    /\ calls[c].fetch = "none"
    /\ calls[c].venueIds = Some(<<"t1", "t2">>)
    /\ cityTheaterIdsCache["Amsterdam"] = Some(<<"t1", "t2">>)


\* C24 (as claimed): once a venue-listing fetch has succeeded, the id caches
\* hold the ids of the fetched venues (of the city, or all), whatever an
\* earlier failed fetch left in them.
C24_IdCachesNotPoisoned ==
  theatersCache # Null =>
    /\ \A cityName \in CityNames :
         cityTheaterIdsCache[cityName] # Null =>
           SeqToSet(Val(cityTheaterIdsCache[cityName])) = CatalogIdsOfCity(cityName)
    /\ allTheaterIdsCache # Null => SeqToSet(Val(allTheaterIdsCache)) = CatalogIds


\* C25 (as claimed): the showtime query of a call with a city selected and no
\* explicit venues carries a venue-id restriction, equal to the ids resolved
\* for the city, also when these are none.
C25_CityQueryRestricted ==
  \A c \in DataCalls : \A cityName \in CityNames :
    (CityCall(c, cityName) /\ calls[c].query # Null) =>
      /\ Val(calls[c].query).venueId # Null
      /\ Val(calls[c].query).venueId = calls[c].venueIds


\* ------------------------------------------------------------------ claims: timeline session
\* C23: no operation of the timeline changes the film list or a showtime
\* record: a step that is not a change of the props leaves timelineMovies as it
\* is, and changes nothing but the anchor, the buffer, the mode, the flag, the
\* venue order (with the dragged column) and what is stored of them.
C23_FilmListUntouched ==
  [][ (~ \E list \in SessionLists : MoviesChange(list)) =>
        /\ timelineMovies' = timelineMovies
        /\ UNCHANGED <<svcVars, galVars, aggVars, storeVars>> ]_vars


\* C23 witness: with an anchor selected, suppression on, the mode and the
\* buffer changed and a column dragged to another place, the film list is one
\* the gallery handed over.
C23_Witness ==
  /\ selectedAnchor # Null
  /\ hideSameMovie
  /\ availabilityMode = "hide"
  /\ bufferMinutes = 0
  /\ theaterOrder # MapIds(Theaters)
  /\ Len(theaterOrder) = Len(Theaters)
  /\ timelineMovies \in SessionLists


\* C26 (as claimed): whenever a showing is hidden by same-film suppression,
\* the anchor showing is one of the showings of the current film list.
C26_SuppressionNeedsPresentAnchor ==
  (\E r \in TimelineRows : HideSameMovieRow(r)) =>
    (\E a \in TimelineRows : IsAnchorShowtime(a))


\* C27 (as claimed): the columns drawn are the venues of the current film list,
\* each exactly once, and nothing else.
C27_ColumnsAreTheVenuesOnce ==
  /\ SeqToSet(OrderedTheaters) = SeqToSet(MapIds(Theaters))
  /\ Len(OrderedTheaters) = Len(Theaters)


Before(order, b, a) ==
  /\ Includes(order, b)
  /\ Includes(order, a)
  /\ IndexOf(order, b) < IndexOf(order, a)

\* The last change of the film list took venue b out of an order that had b
\* before a, and kept a.
RemovedWhileBefore(b, a) ==
  /\ mergeBase # Null
  /\ Before(Val(mergeBase).prev, b, a)
  /\ ~Includes(Val(mergeBase).currentIds, b)
  /\ Includes(Val(mergeBase).currentIds, a)

\* C28 (as claimed): when a change of the film list brings back a venue B that
\* the previous change had removed from an order with B before A, the columns
\* have B before A again.
C28_OrderSurvivesFilterChanges ==
  [][ \A a, b \in {"t1", "t2", "t3", "t4"} :
        ( /\ RemovedWhileBefore(b, a)
          /\ timelineMovies' # timelineMovies
          /\ Includes(MapIds(UniqueTheaters(timelineMovies')), a)
          /\ Includes(MapIds(UniqueTheaters(timelineMovies')), b) )
        => Before(OrderedTheaterIds(theaterOrder', UniqueTheaters(timelineMovies')), b, a) ]_vars


\* ------------------------------------------------------------------ claims: criteria round trip
\* C29 (as claimed): criteria that the persist effect stored are the criteria
\* the next visit starts from, field by field, also where a field is null.
C29_CriteriaRoundTrip ==
  (loaded.gallery # Null /\ storage.filters \in PersistedFilterDocuments) =>
     Val(loaded.gallery).filters = storage.filters.fields

====
